---- MODULE Spec2Model ----
(***************************************************************************)
(* Model of src/programa.py: the Menu class, its markdown helpers          *)
(* (parse_headings, all_paragraphs, get_section, extract_code_block), the  *)
(* menu modules (general, dataset, pasos_programa, pseudocodigo_diagrama,  *)
(* sugerencias_copilot) and the interactive loop seleccionar().            *)
(*                                                                         *)
(* A line of the document is a TLA+ string; a document is a sequence of    *)
(* lines.  Positions are 0-based as in the Python code, so the Python      *)
(* slice lines[a:b] is Slice(lines, a, b).                                 *)
(***************************************************************************)
EXTENDS Integers, Sequences, FiniteSets, TLC

VARIABLES
    lines,    \* self.lines (in a direct helper call: the `lines` argument)
    paras,    \* self.paras, set once by __init__
    opcion,   \* self.opcion
    salir,    \* self.salir
    pc,       \* where control is: the prompt being waited on, or how seleccionar() ended
    ret,      \* the caller show_text() returns to: "menu" or "dataset"
    screen,   \* the text last handed to show_text()
    out       \* what the last handler or helper call computed (its local results)

vars == <<lines, paras, opcion, salir, pc, ret, screen, out>>

-----------------------------------------------------------------------------
(* Bounds of the model.                                                    *)

\* longest document handed to a helper in a direct call
MaxCallDoc == 4
\* longest document of a menu session
MaxDoc == 3
\* longest document of the lines that exercise the heading pattern
MaxHeadingDoc == 2

-----------------------------------------------------------------------------
(* Characters and Python's str operations.                                 *)

\* U+0060 cannot be written inside a string of this module: Backtick stands for it.
Backtick == "^"
Fence == Backtick \o Backtick \o Backtick

\* U+0301 and U+0303 (category Mn) cannot be written either: these stand for them.
CombAcute == "´"
CombTilde == "¨"

NL == "\n"

\* the characters str.strip() and the regex class \s take for whitespace
Whitespace == {" ", "\t", "\n", "\r", "\f"}

Min(S) == CHOOSE m \in S : \A n \in S : m <= n
Max(S) == CHOOSE m \in S : \A n \in S : m >= n

Char(s, i) == SubSeq(s, i, i)

\* Python lines[a:b] with 0 <= a, b <= len(lines)
Slice(s, a, b) == SubSeq(s, a + 1, b)

\* s.startswith(p)
StartsWith(s, p) == Len(s) >= Len(p) /\ SubSeq(s, 1, Len(p)) = p

\* sub in s
Contains(s, sub) ==
    \E i \in 0..(Len(s) - Len(sub)) : SubSeq(s, i + 1, i + Len(sub)) = sub

\* s.strip()
Strip(s) ==
    LET keep == {i \in 1..Len(s) : Char(s, i) \notin Whitespace}
    IN  IF keep = {} THEN "" ELSE SubSeq(s, Min(keep), Max(keep))

UpperChars == "ABCDEFGHIJKLMNOPQRSTUVWXYZÁÉÍÓÚÑ"
LowerChars == "abcdefghijklmnopqrstuvwxyzáéíóúñ"

\* the lower-case counterpart of each upper-case character
LowerMap ==
    [c \in {Char(UpperChars, i) : i \in 1..Len(UpperChars)} |->
        Char(LowerChars, Min({i \in 1..Len(UpperChars) : Char(UpperChars, i) = c}))]

LowerChar(c) == IF c \in DOMAIN LowerMap THEN LowerMap[c] ELSE c

RECURSIVE LowerFrom(_, _)
LowerFrom(s, i) ==
    IF i > Len(s) THEN "" ELSE LowerChar(Char(s, i)) \o LowerFrom(s, i + 1)

\* s.lower()
Lower(s) == LowerFrom(s, 1)

CharsOf(s) == {Char(s, i) : i \in 1..Len(s)}

\* unicodedata.normalize('NFD', c) for one character: a precomposed accented
\* letter becomes its base letter followed by the combining mark
Precomposed == "áéíóúÁÉÍÓÚñÑ"
BaseLetters == "aeiouAEIOUnN"
NFDMap ==
    [c \in {Char(Precomposed, i) : i \in 1..Len(Precomposed)} |->
        LET b == Char(BaseLetters, Min({i \in 1..Len(Precomposed) : Char(Precomposed, i) = c}))
        IN  b \o (IF b \in {"n", "N"} THEN CombTilde ELSE CombAcute)]

NFDChar(c) == IF c \in DOMAIN NFDMap THEN NFDMap[c] ELSE c

RECURSIVE NFDFrom(_, _)
\* unicodedata.normalize('NFD', s) from position i on
NFDFrom(s, i) ==
    IF i > Len(s) THEN "" ELSE NFDChar(Char(s, i)) \o NFDFrom(s, i + 1)

\* unicodedata.category(c) == 'Mn'
IsMn(c) == c \in {CombAcute, CombTilde}

RECURSIVE DropMnFrom(_, _)
\* ''.join(c for c in s if unicodedata.category(c) != 'Mn') from position i on
DropMnFrom(s, i) ==
    IF i > Len(s) THEN ""
    ELSE (IF IsMn(Char(s, i)) THEN "" ELSE Char(s, i)) \o DropMnFrom(s, i + 1)

\* _norm(s): NFD, drop the combining marks, lower-case
Norm(s) == Lower(DropMnFrom(NFDFrom(s, 1), 1))

RECURSIVE Join(_, _)
\* "\n".join(ls) from position i on
Join(ls, i) ==
    IF i > Len(ls) THEN ""
    ELSE IF i = Len(ls) THEN ls[i]
    ELSE ls[i] \o NL \o Join(ls, i + 1)

\* "\n".join(ls).strip()
JoinStrip(ls) == Strip(Join(ls, 1))

-----------------------------------------------------------------------------
(* parse_headings                                                          *)

\* the regex quantifier bound of #{1,6}
MaxLevel == 6

\* number of '#' characters the line begins with
LeadingHashes(ln) ==
    LET stop == {i \in 1..Len(ln) : Char(ln, i) # "#"}
    IN  IF stop = {} THEN Len(ln) ELSE Min(stop) - 1

\* re.match(r'^(#{1,6})\s*(.+)$', ln): the lengths k of group 1 for which the
\* rest of the pattern can match, i.e. at least one character is left for (.+)
HeadingGroup1(ln) ==
    {k \in 1..MaxLevel : k <= LeadingHashes(ln) /\ Len(ln) - k >= 1}

\* group 2 for group 1 of length k: \s* is greedy but gives back what (.+) needs
HeadingGroup2(ln, k) ==
    LET rest  == SubSeq(ln, k + 1, Len(ln))
        stop  == {i \in 1..Len(rest) : Char(rest, i) \notin Whitespace}
        ws    == IF stop = {} THEN Len(rest) - 1 ELSE Min(stop) - 1
    IN  SubSeq(rest, ws + 1, Len(rest))

IsHeadingLine(ln) == HeadingGroup1(ln) # {}

\* the tuple (i, level, title) appended for line number i (greedy: the longest group 1)
HeadingOf(i, ln) ==
    LET k == Max(HeadingGroup1(ln))
    IN  [idx |-> i, level |-> k, title |-> Strip(HeadingGroup2(ln, k))]

RECURSIVE ParseFrom(_, _)
ParseFrom(ls, i) ==
    IF i >= Len(ls) THEN <<>>
    ELSE IF IsHeadingLine(ls[i + 1])
         THEN <<HeadingOf(i, ls[i + 1])>> \o ParseFrom(ls, i + 1)
         ELSE ParseFrom(ls, i + 1)

parse_headings(ls) == ParseFrom(ls, 0)

-----------------------------------------------------------------------------
(* all_paragraphs                                                          *)

\* re.match(r'^(#{1,6})\s*', ln): one leading '#' is enough, nothing has to follow
ParagraphSkips(ln) == LeadingHashes(ln) >= 1

RECURSIVE ParagraphsFrom(_, _, _, _)
\* the loop at line number i (0-based) with the locals paras (ps) and buf
ParagraphsFrom(ls, i, ps, buf) ==
    IF i >= Len(ls)
    THEN IF buf # <<>> THEN Append(ps, JoinStrip(buf)) ELSE ps
    ELSE LET ln == ls[i + 1]
         IN  IF ParagraphSkips(ln) THEN ParagraphsFrom(ls, i + 1, ps, buf)
             ELSE IF Strip(ln) = ""
                  THEN IF buf # <<>>
                       THEN ParagraphsFrom(ls, i + 1, Append(ps, JoinStrip(buf)), <<>>)
                       ELSE ParagraphsFrom(ls, i + 1, ps, buf)
                  ELSE ParagraphsFrom(ls, i + 1, ps, Append(buf, ln))

all_paragraphs(ls) == ParagraphsFrom(ls, 0, <<>>, <<>>)

-----------------------------------------------------------------------------
(* get_section                                                             *)

RECURSIVE GetSectionEnd_SkipsEqualLevel(_, _, _, _, _)
\* GetSectionEnd with level2 < level for level2 <= level: a sibling heading no longer ends the section
GetSectionEnd_SkipsEqualLevel(H, j, idx, level, dflt) ==
    IF j > Len(H) THEN dflt
    ELSE IF H[j].idx > idx /\ H[j].level < level THEN H[j].idx
    ELSE GetSectionEnd_SkipsEqualLevel(H, j + 1, idx, level, dflt)

RECURSIVE GetSectionEnd(_, _, _, _, _)
\* the inner loop: the first heading, in list order, after idx with level2 <= level
GetSectionEnd(H, j, idx, level, dflt) ==
    IF j > Len(H) THEN dflt
    ELSE IF H[j].idx > idx /\ H[j].level <= level THEN H[j].idx
    ELSE GetSectionEnd(H, j + 1, idx, level, dflt)

\* title_search.lower() in title.lower()
GetSectionMatches(title, title_search) == Contains(Lower(title), Lower(title_search))

RECURSIVE GetSectionFrom(_, _, _, _)
\* the outer loop at heading number k
GetSectionFrom(ls, H, k, title_search) ==
    IF k > Len(H) THEN <<>>
    ELSE IF GetSectionMatches(H[k].title, title_search)
         THEN LET start == H[k].idx + 1
                  end   == GetSectionEnd(H, 1, H[k].idx, H[k].level, Len(ls))
              IN  Slice(ls, start, end)
         ELSE GetSectionFrom(ls, H, k + 1, title_search)

get_section(ls, title_search) == GetSectionFrom(ls, parse_headings(ls), 1, title_search)

-----------------------------------------------------------------------------
(* extract_code_block                                                      *)

\* ln.strip().startswith("```")
IsFenceLine(ln) == StartsWith(Strip(ln), Fence)

RECURSIVE CodeLinesFrom_RejectsOpenFence(_, _, _, _)
\* CodeLinesFrom giving nothing back when the input ends inside a fence
CodeLinesFrom_RejectsOpenFence(ls, i, inside_code, code_lines) ==
    IF i >= Len(ls) THEN (IF inside_code THEN <<>> ELSE code_lines)
    ELSE LET ln == ls[i + 1]
         IN  IF IsFenceLine(ln)
             THEN CodeLinesFrom_RejectsOpenFence(ls, i + 1, ~inside_code, code_lines)
             ELSE IF inside_code
                  THEN CodeLinesFrom_RejectsOpenFence(ls, i + 1, inside_code, Append(code_lines, ln))
                  ELSE CodeLinesFrom_RejectsOpenFence(ls, i + 1, inside_code, code_lines)

RECURSIVE CodeLinesFrom(_, _, _, _)
\* the loop at line number i with the locals inside_code and code_lines
CodeLinesFrom(ls, i, inside_code, code_lines) ==
    IF i >= Len(ls) THEN code_lines
    ELSE LET ln == ls[i + 1]
         IN  IF IsFenceLine(ln) THEN CodeLinesFrom(ls, i + 1, ~inside_code, code_lines)
             ELSE IF inside_code THEN CodeLinesFrom(ls, i + 1, inside_code, Append(code_lines, ln))
             ELSE CodeLinesFrom(ls, i + 1, inside_code, code_lines)

extract_code_block(ls) == JoinStrip(CodeLinesFrom(ls, 0, FALSE, <<>>))

-----------------------------------------------------------------------------
(* Documents.                                                              *)

RECURSIVE DocsOfLen(_, _)
DocsOfLen(pool, n) ==
    IF n = 0 THEN {<<>>}
    ELSE {Append(d, ln) : d \in DocsOfLen(pool, n - 1), ln \in pool}

\* every document of at most n lines drawn from pool
Docs(pool, n) == UNION {DocsOfLen(pool, k) : k \in 0..n}

\* the state a Menu object is in after __init__ has read the document doc
Constructed(doc) ==
    /\ lines = doc
    /\ paras = all_paragraphs(doc)
    /\ opcion = 0
    /\ salir = FALSE
    /\ pc = "idle"
    /\ ret = "menu"
    /\ screen = ""
    /\ out = [op |-> "none"]

-----------------------------------------------------------------------------
(* Direct calls of the helpers on a document: one call on the constructed  *)
(* object, after which pc = "called" and out holds what it returned.       *)

\* lines that exercise the heading pattern: with and without '#', whitespace, text
HeadingPool ==
    {"", "a", " ", "#", "##", "#a", "# a", "##a", "## a", " # a", "# ", "#\ta",
     "#  a  ", "######", "###### a", "#######", "#######a", "####### a"}

\* headings of three levels around plain and blank lines
SectionPool == {"# Uno", "## uno dos", "## Tres", "### UNO", "texto"}
SectionQueries == {"uno", "UNO DOS", "tres", "nada", ""}

ParagraphPool == {"", "  ", "a", " b ", "# H", "## H2"}

CodePool == {Fence, "  " \o Fence \o "py", "a", " b", "", "x " \o Fence}

InitHeadings == \E doc \in Docs(HeadingPool, MaxHeadingDoc) : Constructed(doc)
InitSection == \E doc \in Docs(SectionPool, MaxCallDoc) : Constructed(doc)
InitParagraphs == \E doc \in Docs(ParagraphPool, MaxCallDoc) : Constructed(doc)
InitCode == \E doc \in Docs(CodePool, MaxCallDoc) : Constructed(doc)

CallParseHeadings ==
    /\ pc = "idle"
    /\ out' = [op |-> "parse_headings", val |-> parse_headings(lines)]
    /\ pc' = "called"
    /\ UNCHANGED <<lines, paras, opcion, salir, ret, screen>>

CallAllParagraphs ==
    /\ pc = "idle"
    /\ out' = [op |-> "all_paragraphs", val |-> all_paragraphs(lines)]
    /\ pc' = "called"
    /\ UNCHANGED <<lines, paras, opcion, salir, ret, screen>>

CallGetSection ==
    /\ pc = "idle"
    /\ \E q \in SectionQueries :
          out' = [op |-> "get_section", arg |-> q, val |-> get_section(lines, q)]
    /\ pc' = "called"
    /\ UNCHANGED <<lines, paras, opcion, salir, ret, screen>>

CallExtractCodeBlock ==
    /\ pc = "idle"
    /\ out' = [op |-> "extract_code_block", val |-> extract_code_block(lines)]
    /\ pc' = "called"
    /\ UNCHANGED <<lines, paras, opcion, salir, ret, screen>>

NextCalls ==
    \/ CallParseHeadings
    \/ CallAllParagraphs
    \/ CallGetSection
    \/ CallExtractCodeBlock

SpecHeadings == InitHeadings /\ [][NextCalls]_vars
SpecSection == InitSection /\ [][NextCalls]_vars
SpecParagraphs == InitParagraphs /\ [][NextCalls]_vars
SpecCode == InitCode /\ [][NextCalls]_vars

-----------------------------------------------------------------------------
(* show_text and the menu modules.  A module is an operator giving what it *)
(* hands to show_text (text; shows = FALSE when it returns without calling *)
(* it) and the values of its locals (out).                                 *)

\* None, for the index locals that start as None (indices are >= 0)
None == -1

MsgNoGeneral == "No se encontró la sección 'Información general' en el documento."
MsgNoDataset == "No se encontró la sección 'Dataset de referencia' en el documento."
MsgNoTablaAfter == "No se encontró el subtítulo 'Tabla clientes' después de 'Dataset de referencia'."
MsgNoTabla == "No se encontró el subtítulo 'Tabla clientes' en el documento."
MsgNoPasos == "No se encontró la sección 'Pasos' en el documento."
MsgNoHeadings == "No se encontraron encabezados en el documento."
MsgNoPseudo == "No se encontraron secciones de 'Pseudocódigo' o 'Diagrama' en el documento."
MsgNoSugerencias == "No se encontró la sección 'Sugerencias Copilot'."
MsgSugerenciasVacia == "No hay contenido en 'Sugerencias Copilot'."

RECURSIVE JoinBlank(_, _)
\* "\n\n".join(sections) from position i on
JoinBlank(ss, i) ==
    IF i > Len(ss) THEN ""
    ELSE IF i = Len(ss) THEN ss[i]
    ELSE ss[i] \o NL \o NL \o JoinBlank(ss, i + 1)

\* general()
general(ls) ==
    LET sec_lines == get_section(ls, "Información general")
    IN  IF sec_lines = <<>>
        THEN [shows |-> TRUE, text |-> MsgNoGeneral,
              out |-> [op |-> "general", sec_lines |-> sec_lines]]
        ELSE [shows |-> TRUE, text |-> JoinStrip(sec_lines),
              out |-> [op |-> "general", sec_lines |-> sec_lines]]

\* pasos_programa()
pasos_programa(ls) ==
    LET sec_lines == get_section(ls, "Pasos")
    IN  IF sec_lines = <<>>
        THEN [shows |-> TRUE, text |-> MsgNoPasos,
              out |-> [op |-> "pasos_programa", sec_lines |-> sec_lines]]
        ELSE [shows |-> JoinStrip(sec_lines) # "", text |-> JoinStrip(sec_lines),
              out |-> [op |-> "pasos_programa", sec_lines |-> sec_lines]]

\* dataset(), choice "a": the predicates of the two boundaries
IsDatasetHeading(h) ==
    h.level = 2 /\ Contains(Norm(h.title), "dataset") /\ Contains(Norm(h.title), "referenc")
IsTablaHeading(h) ==
    h.level = 3 /\ Contains(Norm(h.title), "tabla") /\ Contains(Norm(h.title), "clientes")
\* dataset(), choice "b": the end predicate
IsProgramaHeading(h) ==
    h.level = 2 /\ Contains(Norm(h.title), "programa") /\ Contains(Norm(h.title), "interact")

RECURSIVE DatasetAScan(_, _, _, _)
\* choice "a": the loop over headings with the locals ds_idx and tabla_idx
DatasetAScan(H, k, ds_idx, tabla_idx) ==
    IF k > Len(H) THEN [ds_idx |-> ds_idx, tabla_idx |-> tabla_idx]
    ELSE LET ds == IF ds_idx = None /\ IsDatasetHeading(H[k]) THEN H[k].idx ELSE ds_idx
             tb == IF tabla_idx = None /\ IsTablaHeading(H[k]) THEN H[k].idx ELSE tabla_idx
         IN  DatasetAScan(H, k + 1, ds, tb)

\* dataset(), choice "a"
dataset_a(ls) ==
    LET r == DatasetAScan(parse_headings(ls), 1, None, None)
        o == [op |-> "dataset_a", start |-> r.ds_idx, stop |-> r.tabla_idx]
    IN  IF r.ds_idx = None
        THEN [shows |-> TRUE, text |-> MsgNoDataset, out |-> o @@ [ranges |-> <<>>]]
        ELSE IF r.tabla_idx = None \/ r.tabla_idx <= r.ds_idx
        THEN [shows |-> TRUE, text |-> MsgNoTablaAfter, out |-> o @@ [ranges |-> <<>>]]
        ELSE [shows |-> TRUE, text |-> JoinStrip(Slice(ls, r.ds_idx, r.tabla_idx)),
              out |-> o @@ [ranges |-> <<<<r.ds_idx, r.tabla_idx>>>>]]

RECURSIVE DatasetBScan(_, _, _, _)
\* choice "b": the loop over headings with the locals tabla_idx and prog_idx
DatasetBScan(H, k, tabla_idx, prog_idx) ==
    IF k > Len(H) THEN [tabla_idx |-> tabla_idx, prog_idx |-> prog_idx]
    ELSE LET tb == IF tabla_idx = None /\ IsTablaHeading(H[k]) THEN H[k].idx ELSE tabla_idx
             pg == IF prog_idx = None /\ IsProgramaHeading(H[k]) THEN H[k].idx ELSE prog_idx
         IN  DatasetBScan(H, k + 1, tb, pg)

\* dataset_b with choice "a"'s policy: a missing end is reported, nothing is output
dataset_b_FailsWithoutEnd(ls) ==
    LET r == DatasetBScan(parse_headings(ls), 1, None, None)
        o == [op |-> "dataset_b", start |-> r.tabla_idx, stop |-> r.prog_idx]
    IN  IF r.tabla_idx = None
        THEN [shows |-> TRUE, text |-> MsgNoTabla, out |-> o @@ [ranges |-> <<>>]]
        ELSE IF r.prog_idx = None \/ r.prog_idx <= r.tabla_idx
        THEN [shows |-> TRUE, text |-> MsgNoTablaAfter, out |-> o @@ [ranges |-> <<>>]]
        ELSE [shows |-> TRUE, text |-> JoinStrip(Slice(ls, r.tabla_idx, r.prog_idx)),
              out |-> o @@ [ranges |-> <<<<r.tabla_idx, r.prog_idx>>>>]]

\* dataset(), choice "b"; `prog_idx and ...` is false for None and for 0
dataset_b(ls) ==
    LET r == DatasetBScan(parse_headings(ls), 1, None, None)
        o == [op |-> "dataset_b", start |-> r.tabla_idx, stop |-> r.prog_idx]
        end_idx == IF r.prog_idx # None /\ r.prog_idx # 0 /\ r.prog_idx > r.tabla_idx
                   THEN r.prog_idx ELSE Len(ls)
    IN  IF r.tabla_idx = None
        THEN [shows |-> TRUE, text |-> MsgNoTabla, out |-> o @@ [ranges |-> <<>>]]
        ELSE [shows |-> TRUE, text |-> JoinStrip(Slice(ls, r.tabla_idx, end_idx)),
              out |-> o @@ [ranges |-> <<<<r.tabla_idx, end_idx>>>>]]

\* PseudoMatches comparing title.lower() instead of _norm(title): accents are kept
PseudoMatches_KeepsAccents(title) ==
    \E t \in {"pseudocodigo", "diagrama"} : Contains(Lower(title), t)

\* pseudocodigo_diagrama(): any(t in low_title for t in terms)
PseudoMatches(title) ==
    \E t \in {"pseudocodigo", "diagrama"} : Contains(Norm(title), t)

RECURSIVE PseudoEnd(_, _, _, _, _)
\* the inner loop: the first heading after idx with level2 <= level
PseudoEnd(H, j, idx, level, dflt) ==
    IF j > Len(H) THEN dflt
    ELSE IF H[j].idx > idx /\ H[j].level <= level THEN H[j].idx
    ELSE PseudoEnd(H, j + 1, idx, level, dflt)

RECURSIVE PseudoScan(_, _, _, _)
\* the outer loop at heading k; ranges holds [start, end) of each section appended
PseudoScan(ls, H, k, ranges) ==
    IF k > Len(H) THEN ranges
    ELSE IF H[k].level # 3 THEN PseudoScan(ls, H, k + 1, ranges)
    ELSE IF PseudoMatches(H[k].title)
         THEN LET start == H[k].idx
                  end   == PseudoEnd(H, 1, H[k].idx, H[k].level, Len(ls))
              IN  PseudoScan(ls, H, k + 1, Append(ranges, <<start, end>>))
         ELSE PseudoScan(ls, H, k + 1, ranges)

\* the strings appended to `sections` for the ranges sliced
SectionTexts(ls, ranges) ==
    [n \in 1..Len(ranges) |-> JoinStrip(Slice(ls, ranges[n][1], ranges[n][2]))]

\* pseudocodigo_diagrama()
pseudocodigo_diagrama(ls) ==
    LET headings == parse_headings(ls)
        ranges   == PseudoScan(ls, headings, 1, <<>>)
        sections == SectionTexts(ls, ranges)
    IN  IF headings = <<>>
        THEN [shows |-> TRUE, text |-> MsgNoHeadings,
              out |-> [op |-> "pseudocodigo_diagrama", ranges |-> <<>>]]
        ELSE IF sections # <<>>
        THEN [shows |-> TRUE, text |-> JoinBlank(sections, 1),
              out |-> [op |-> "pseudocodigo_diagrama", ranges |-> ranges]]
        ELSE [shows |-> TRUE, text |-> MsgNoPseudo,
              out |-> [op |-> "pseudocodigo_diagrama", ranges |-> ranges]]

RECURSIVE SugTarget(_, _)
\* the first heading, from k on, with "sugerencias copilot" in title.lower(); 0 if none
SugTarget(H, k) ==
    IF k > Len(H) THEN 0
    ELSE IF Contains(Lower(H[k].title), "sugerencias copilot") THEN k
    ELSE SugTarget(H, k + 1)

RECURSIVE SugEnd_SkipsEqualLevel(_, _, _, _, _)
\* SugEnd with level2 < target_level: a sibling heading no longer ends the outer section
SugEnd_SkipsEqualLevel(H, j, start, target_level, dflt) ==
    IF j > Len(H) THEN dflt
    ELSE IF H[j].idx > start /\ H[j].level < target_level THEN H[j].idx
    ELSE SugEnd_SkipsEqualLevel(H, j + 1, start, target_level, dflt)

RECURSIVE SugEnd(_, _, _, _, _)
\* the end of the outer section: the first heading after start with level2 <= target_level
SugEnd(H, j, start, target_level, dflt) ==
    IF j > Len(H) THEN dflt
    ELSE IF H[j].idx > start /\ H[j].level <= target_level THEN H[j].idx
    ELSE SugEnd(H, j + 1, start, target_level, dflt)

RECURSIVE SubEnd(_, _, _, _, _)
\* sub_end: the first heading after idx, before end, with level2 <= level; else end
SubEnd(H, j, idx, level, end) ==
    IF j > Len(H) THEN end
    ELSE IF H[j].idx > idx /\ H[j].idx < end /\ H[j].level <= level THEN H[j].idx
    ELSE SubEnd(H, j + 1, idx, level, end)

\* the test that keeps a heading out of the partition: idx < start or idx >= end
SubOutside(idx, start, end) == idx < start \/ idx >= end

RECURSIVE SubScan(_, _, _, _, _)
\* the loop collecting the level 2 and 3 subsections within [start, end)
SubScan(H, k, start, end, ranges) ==
    IF k > Len(H) THEN ranges
    ELSE IF SubOutside(H[k].idx, start, end) THEN SubScan(H, k + 1, start, end, ranges)
    ELSE IF H[k].level \in {2, 3}
         THEN SubScan(H, k + 1, start, end,
                      Append(ranges, <<H[k].idx, SubEnd(H, 1, H[k].idx, H[k].level, end)>>))
         ELSE SubScan(H, k + 1, start, end, ranges)

\* sugerencias_copilot()
sugerencias_copilot(ls) ==
    LET headings == parse_headings(ls)
        t        == SugTarget(headings, 1)
    IN  IF t = 0
        THEN [shows |-> TRUE, text |-> MsgNoSugerencias,
              out |-> [op |-> "sugerencias_copilot", target_idx |-> None,
                       outer |-> <<>>, ranges |-> <<>>, fallback |-> FALSE]]
        ELSE LET start    == headings[t].idx
                 end      == SugEnd(headings, 1, start, headings[t].level, Len(ls))
                 ranges   == SubScan(headings, 1, start, end, <<>>)
                 sections == SectionTexts(ls, ranges)
                 whole    == JoinStrip(Slice(ls, start, end))
                 o        == [op |-> "sugerencias_copilot", target_idx |-> start,
                              outer |-> <<start, end>>, ranges |-> ranges,
                              fallback |-> (sections = <<>>)]
             IN  IF sections = <<>>
                 THEN [shows |-> TRUE,
                       text |-> IF whole # "" THEN whole ELSE MsgSugerenciasVacia,
                       out |-> o]
                 ELSE [shows |-> TRUE, text |-> JoinBlank(sections, 1), out |-> o]

-----------------------------------------------------------------------------
(* seleccionar(): the interactive loop.  pc names the prompt control waits *)
(* at; every prompt either receives a typed line or a KeyboardInterrupt.   *)
(*   "menu"            input("Seleccione una opción: ")                    *)
(*   "ack_empty"       input("Opción vacía. ...")                          *)
(*   "ack_invalid"     input("Opción no válida. ...")                      *)
(*   "ack_value_error" input("Entrada no válida. ...") in except ValueError*)
(*   "dataset"         input("Elija a/b\n") in dataset()                   *)
(*   "show"            input("Presione Enter ...") in show_text()          *)
(*   "returned"        seleccionar() returned                              *)
(*   "raised"          an exception left seleccionar()                     *)

Digits == "0123456789"

DigitValue(c) == Min({i \in 1..Len(Digits) : Char(Digits, i) = c}) - 1

\* whether int(s) succeeds: an optional sign and then decimal digits only
IsIntLiteral(s) ==
    LET body == IF Len(s) > 0 /\ Char(s, 1) \in {"+", "-"} THEN SubSeq(s, 2, Len(s)) ELSE s
    IN  Len(body) > 0 /\ \A i \in 1..Len(body) : Char(body, i) \in CharsOf(Digits)

RECURSIVE DigitsValue(_, _)
\* the value of the first n digits of body
DigitsValue(body, n) ==
    IF n = 0 THEN 0 ELSE 10 * DigitsValue(body, n - 1) + DigitValue(Char(body, n))

\* int(s) for a literal s
IntValue(s) ==
    LET signed == Char(s, 1) \in {"+", "-"}
        body   == IF signed THEN SubSeq(s, 2, Len(s)) ELSE s
        v      == DigitsValue(body, Len(body))
    IN  IF Char(s, 1) = "-" THEN 0 - v ELSE v

\* what the user types at the main prompt, and at the dataset prompt
MenuInputs == {"", " ", "x", "1", " 2", "3", "4 ", "5", "6", "7", "+1", "1a"}
DatasetInputs == {"a", " A ", "b", "B", "", " ", "x"}

\* raw = input(...).strip() for each line typed at the main prompt
MenuRaw == {Strip(typed) : typed \in MenuInputs}

\* the values of int(raw) that reach `self.opcion = int(raw)`
MenuChoices == {IntValue(raw) : raw \in {r \in MenuRaw : r # "" /\ IsIntLiteral(r)}}

\* choice = input(...).strip().lower() for each line typed at the dataset prompt
DatasetChoices == {Lower(Strip(typed)) : typed \in DatasetInputs}

\* show_text(text) called from `caller`: the text is printed and the prompt waits
ShowText(text, caller) ==
    /\ screen' = text
    /\ pc' = "show"
    /\ ret' = caller

\* a menu module r called from the loop: it shows its text, or returns at once
RunModule(r) ==
    /\ out' = r.out
    /\ IF r.shows THEN ShowText(r.text, "menu")
       ELSE pc' = "menu" /\ UNCHANGED <<screen, ret>>

\* seleccionar() is called: `while not self.salir`, mostrar(), the main prompt
Seleccionar ==
    /\ pc = "idle"
    /\ pc' = IF salir THEN "returned" ELSE "menu"
    /\ UNCHANGED <<lines, paras, opcion, salir, ret, screen, out>>

\* raw == "": the acknowledgement prompt inside the try
MenuEmpty ==
    /\ pc = "menu"
    /\ "" \in MenuRaw
    /\ pc' = "ack_empty"
    /\ UNCHANGED <<lines, paras, opcion, salir, ret, screen, out>>

\* int(raw) raises ValueError: the handler's prompt
MenuNotInt ==
    /\ pc = "menu"
    /\ \E raw \in MenuRaw : raw # "" /\ ~IsIntLiteral(raw)
    /\ pc' = "ack_value_error"
    /\ UNCHANGED <<lines, paras, opcion, salir, ret, screen, out>>

\* Opcion1 with general() storing the section it found back into self.lines
Opcion1_OverwritesLines ==
    /\ pc = "menu"
    /\ 1 \in MenuChoices
    /\ opcion' = 1
    /\ RunModule(general(lines))
    /\ lines' = general(lines).out.sec_lines
    /\ UNCHANGED <<paras, salir>>

Opcion1 ==
    /\ pc = "menu"
    /\ 1 \in MenuChoices
    /\ opcion' = 1
    /\ RunModule(general(lines))
    /\ UNCHANGED <<lines, paras, salir>>

\* dataset(): the submenu prompt
Opcion2 ==
    /\ pc = "menu"
    /\ 2 \in MenuChoices
    /\ opcion' = 2
    /\ pc' = "dataset"
    /\ UNCHANGED <<lines, paras, salir, ret, screen, out>>

Opcion3 ==
    /\ pc = "menu"
    /\ 3 \in MenuChoices
    /\ opcion' = 3
    /\ RunModule(pasos_programa(lines))
    /\ UNCHANGED <<lines, paras, salir>>

Opcion4 ==
    /\ pc = "menu"
    /\ 4 \in MenuChoices
    /\ opcion' = 4
    /\ RunModule(pseudocodigo_diagrama(lines))
    /\ UNCHANGED <<lines, paras, salir>>

Opcion5 ==
    /\ pc = "menu"
    /\ 5 \in MenuChoices
    /\ opcion' = 5
    /\ RunModule(sugerencias_copilot(lines))
    /\ UNCHANGED <<lines, paras, salir>>

\* option 6: salir = True, the loop condition fails and seleccionar() returns
Opcion6 ==
    /\ pc = "menu"
    /\ 6 \in MenuChoices
    /\ opcion' = 6
    /\ salir' = TRUE
    /\ pc' = "returned"
    /\ UNCHANGED <<lines, paras, ret, screen, out>>

\* any other integer: the acknowledgement prompt inside the try
OpcionNoValida ==
    /\ pc = "menu"
    /\ \E n \in MenuChoices : n \notin 1..6 /\ opcion' = n
    /\ pc' = "ack_invalid"
    /\ UNCHANGED <<lines, paras, salir, ret, screen, out>>

\* Enter at one of the three acknowledgement prompts: the loop goes round
AckEnter ==
    /\ pc \in {"ack_empty", "ack_invalid", "ack_value_error"}
    /\ pc' = "menu"
    /\ UNCHANGED <<lines, paras, opcion, salir, ret, screen, out>>

\* KeyboardInterrupt at a prompt inside the try block (the main prompt, the two
\* acknowledgements in it, the dataset prompt): `except KeyboardInterrupt`
\* sets salir and the loop ends
InterruptInTry ==
    /\ pc \in {"menu", "ack_empty", "ack_invalid", "dataset"}
    /\ salir' = TRUE
    /\ pc' = "returned"
    /\ UNCHANGED <<lines, paras, opcion, ret, screen, out>>

\* KeyboardInterrupt at the prompt of the `except ValueError` handler: a sibling
\* except clause does not catch what a handler raises, so it leaves seleccionar()
InterruptInHandler ==
    /\ pc = "ack_value_error"
    /\ pc' = "raised"
    /\ UNCHANGED <<lines, paras, opcion, salir, ret, screen, out>>

\* Enter at show_text's prompt: back to the caller's loop
ShowTextEnter ==
    /\ pc = "show"
    /\ pc' = ret
    /\ UNCHANGED <<lines, paras, opcion, salir, ret, screen, out>>

\* KeyboardInterrupt at show_text's prompt: caught there, back to the caller's loop
ShowTextInterrupt ==
    /\ pc = "show"
    /\ pc' = ret
    /\ UNCHANGED <<lines, paras, opcion, salir, ret, screen, out>>

\* dataset(), choice "a"; after show_text, `continue`
DatasetA ==
    /\ pc = "dataset"
    /\ "a" \in DatasetChoices
    /\ LET r == dataset_a(lines)
       IN  out' = r.out /\ ShowText(r.text, "dataset")
    /\ UNCHANGED <<lines, paras, opcion, salir>>

\* dataset(), choice "b"
DatasetB ==
    /\ pc = "dataset"
    /\ "b" \in DatasetChoices
    /\ LET r == dataset_b(lines)
       IN  out' = r.out /\ ShowText(r.text, "dataset")
    /\ UNCHANGED <<lines, paras, opcion, salir>>

\* dataset(), choice "": return to the main loop
DatasetReturn ==
    /\ pc = "dataset"
    /\ "" \in DatasetChoices
    /\ pc' = "menu"
    /\ UNCHANGED <<lines, paras, opcion, salir, ret, screen, out>>

\* dataset(), any other choice: no branch is taken and the submenu is shown again
DatasetOther ==
    /\ pc = "dataset"
    /\ DatasetChoices \ {"a", "b", ""} # {}
    /\ pc' = "dataset"
    /\ UNCHANGED <<lines, paras, opcion, salir, ret, screen, out>>

Next ==
    \/ Seleccionar
    \/ MenuEmpty
    \/ MenuNotInt
    \/ Opcion1
    \/ Opcion2
    \/ Opcion3
    \/ Opcion4
    \/ Opcion5
    \/ Opcion6
    \/ OpcionNoValida
    \/ AckEnter
    \/ InterruptInTry
    \/ InterruptInHandler
    \/ ShowTextEnter
    \/ ShowTextInterrupt
    \/ DatasetA
    \/ DatasetB
    \/ DatasetReturn
    \/ DatasetOther

\* documents of each menu module's headings, with text, blank lines and other headings
GeneralPool == {"# Información general", "## Pasos del programa", "# Otra", "texto", ""}
DatasetPool ==
    {"## Dataset de referencia", "### Tabla Clientes", "## Programa Interactivo",
     "## Tabla de clientes", "texto"}
PseudoPool ==
    {"### Pseudocódigo", "### Diagrama de flujo", "## Diagrama", "### Pasos", "texto"}
SugerenciasPool ==
    {"# Sugerencias Copilot", "## Sugerencias Copilot", "### Uno", "## Dos", "#### Hondo", "texto"}

Init == \E doc \in Docs(GeneralPool, MaxDoc) : Constructed(doc)
InitDataset == \E doc \in Docs(DatasetPool, MaxDoc) : Constructed(doc)
InitPseudo == \E doc \in Docs(PseudoPool, MaxDoc) : Constructed(doc)
InitSugerencias == \E doc \in Docs(SugerenciasPool, MaxDoc) : Constructed(doc)

Spec == Init /\ [][Next]_vars
SpecDataset == InitDataset /\ [][Next]_vars
SpecPseudo == InitPseudo /\ [][Next]_vars
SpecSugerencias == InitSugerencias /\ [][Next]_vars

-----------------------------------------------------------------------------
(* Helpers of the properties.                                              *)

RECURSIVE Ascending(_)
\* the members of a finite set of integers, in ascending order
Ascending(S) == IF S = {} THEN <<>> ELSE <<Min(S)>> \o Ascending(S \ {Min(S)})

\* the 0-based positions of a document
Positions(ls) == 0..(Len(ls) - 1)

\* the Heading Index as a set of positions, and the level at a heading position
HeadingPositions(ls) == {i \in Positions(ls) : IsHeadingLine(ls[i + 1])}
LevelAt(ls, i) == HeadingOf(i, ls[i + 1]).level
TitleAt(ls, i) == HeadingOf(i, ls[i + 1]).title

\* the nesting boundary of the heading at p with level lv: the first heading
\* after p of level <= lv, else the document length
Boundary(ls, p, lv) ==
    LET later == {i \in HeadingPositions(ls) : i > p /\ LevelAt(ls, i) <= lv}
    IN  IF later = {} THEN Len(ls) ELSE Min(later)

-----------------------------------------------------------------------------
(* C1 *)

\* the headings whose title contains q, case-insensitively
C1_Matching(ls, q) ==
    {i \in HeadingPositions(ls) : Contains(Lower(TitleAt(ls, i)), Lower(q))}

\* C1: get_section(lines, q) resolves the first heading, in document order,
\* whose title contains q case-insensitively, at position P with level L, and
\* returns exactly lines[P+1 : E], E being the position of the first heading
\* after P of level <= L, or len(lines); so no returned line is a heading of
\* level <= L, and the anchor line is not returned.
C1_GetSectionRange ==
    (pc = "called" /\ out.op = "get_section" /\ C1_Matching(lines, out.arg) # {}) =>
        LET P == Min(C1_Matching(lines, out.arg))
            L == LevelAt(lines, P)
            E == Boundary(lines, P, L)
        IN  /\ out.val = Slice(lines, P + 1, E)
            /\ Len(out.val) = E - (P + 1)
            /\ \A n \in 1..Len(out.val) :
                  IsHeadingLine(out.val[n]) => HeadingOf(0, out.val[n]).level > L

\* a call where two headings match, the first one's section holds a deeper
\* heading and stops at a later heading of its own level, before the document end
C1_Witness ==
    /\ pc = "called" /\ out.op = "get_section"
    /\ Cardinality(C1_Matching(lines, out.arg)) >= 2
    /\ LET P == Min(C1_Matching(lines, out.arg))
       IN  /\ Boundary(lines, P, LevelAt(lines, P)) < Len(lines)
           /\ \E n \in 1..Len(out.val) : IsHeadingLine(out.val[n])

-----------------------------------------------------------------------------
(* C2 *)

\* 1 to 6 leading '#', then whitespace, then text
C2_IsATX(ln) ==
    LET h == LeadingHashes(ln)
    IN  /\ h \in 1..6
        /\ Len(ln) > h
        /\ Char(ln, h + 1) \in Whitespace
        /\ Strip(SubSeq(ln, h + 1, Len(ln))) # ""

\* C2: parse_headings(lines) has one entry (i, level, title) for exactly the
\* lines of 1 to 6 leading '#' followed by whitespace and text, and none for any
\* other line; level is the number of leading '#' and lies in 1..6; positions
\* strictly increase; an empty input gives an empty list.
C2_ParseHeadingsATX ==
    (pc = "called" /\ out.op = "parse_headings") =>
        LET H == out.val
        IN  /\ {H[k].idx : k \in 1..Len(H)} = {i \in Positions(lines) : C2_IsATX(lines[i + 1])}
            /\ \A k \in 1..Len(H) :
                  /\ H[k].level = LeadingHashes(lines[H[k].idx + 1])
                  /\ H[k].level \in 1..6
            /\ \A k \in 1..(Len(H) - 1) : H[k].idx < H[k + 1].idx
            /\ (lines = <<>> => H = <<>>)

-----------------------------------------------------------------------------
(* C7 *)

\* a line that belongs to some paragraph: neither blank nor a heading line
C7_Content(ls, i) == ~ParagraphSkips(ls[i + 1]) /\ Strip(ls[i + 1]) # ""

\* the first positions of the maximal runs of consecutive content lines
C7_RunStarts(ls) ==
    {i \in Positions(ls) : C7_Content(ls, i) /\ (i = 0 \/ ~C7_Content(ls, i - 1))}

\* one past the last position of the run starting at i
C7_RunEnd(ls, i) ==
    Min({j \in (i + 1)..Len(ls) : j = Len(ls) \/ ~C7_Content(ls, j)})

C7_Runs(ls) ==
    LET starts == Ascending(C7_RunStarts(ls))
    IN  [k \in 1..Len(starts) |-> JoinStrip(Slice(ls, starts[k], C7_RunEnd(ls, starts[k])))]

\* C7: all_paragraphs(lines) returns, in document order, exactly one paragraph
\* per maximal run of consecutive non-blank, non-heading lines, each the trimmed
\* newline-join of the run; lines separated by a heading line are in different
\* paragraphs, as lines separated by a blank line are.
C7_ParagraphsAreRuns ==
    (pc = "called" /\ out.op = "all_paragraphs") => out.val = C7_Runs(lines)

-----------------------------------------------------------------------------
(* C8 *)

\* the fence lines before position i
C8_FencesBefore(ls, i) ==
    {j \in Positions(ls) : j < i /\ StartsWith(Strip(ls[j + 1]), Fence)}

\* the positions emitted: not a fence line, an odd number of fence lines before
C8_Emitted(ls) ==
    {i \in Positions(ls) :
        /\ ~StartsWith(Strip(ls[i + 1]), Fence)
        /\ Cardinality(C8_FencesBefore(ls, i)) % 2 = 1}

\* C8: extract_code_block(lines) is a two-state toggle: every line whose trimmed
\* content starts with the fence flips the state and is never emitted, any other
\* line is emitted iff an odd number of fence lines precede it; the result is
\* the trimmed newline-join of the emitted lines, also when the input ends
\* inside an unterminated fence.
C8_CodeBlockToggle ==
    (pc = "called" /\ out.op = "extract_code_block") =>
        LET at == Ascending(C8_Emitted(lines))
        IN  out.val = JoinStrip([k \in 1..Len(at) |-> lines[at[k] + 1]])

\* a call on an input with one fence, never closed, that ends on a collected
\* line, while a line of text before the fence is dropped
C8_Witness ==
    /\ pc = "called" /\ out.op = "extract_code_block"
    /\ Cardinality(C8_FencesBefore(lines, Len(lines))) = 1
    /\ ~StartsWith(Strip(lines[Len(lines)]), Fence)
    /\ out.val # ""
    /\ \E i \in Positions(lines) :
          Strip(lines[i + 1]) # "" /\ i \notin C8_Emitted(lines)
             /\ ~StartsWith(Strip(lines[i + 1]), Fence)

-----------------------------------------------------------------------------
(* C3 *)

\* the heading at position i, as parse_headings records it
HeadingAt(ls, i) == HeadingOf(i, ls[i + 1])

\* the headings after position s that satisfy the end predicate of the choice
C3_EndsAfter(ls, op, s) ==
    {i \in HeadingPositions(ls) :
        /\ i > s
        /\ IF op = "dataset_a" THEN IsTablaHeading(HeadingAt(ls, i))
           ELSE IsProgramaHeading(HeadingAt(ls, i))}

\* C3: in dataset() choices "a" and "b", once the start heading is found at S,
\* the end is the first heading strictly after S that satisfies the end
\* predicate; a matching heading before S does not keep a later one from being
\* used, and the fallback applies only when none after S matches.
C3_EndIsFirstMatchAfterStart ==
    (pc = "show" /\ out.op \in {"dataset_a", "dataset_b"} /\ out.start # None) =>
        LET after == C3_EndsAfter(lines, out.op, out.start)
        IN  after # {} => out.ranges = <<<<out.start, Min(after)>>>>

-----------------------------------------------------------------------------
(* C4 *)

\* C4: general() and pasos_programa() show their "No se encontró la sección"
\* message only if no heading title contains the query: a heading that matches
\* gives a range, possibly of no lines, that is told apart from not-found.
C4_NotFoundOnlyWithoutHeading ==
    /\ (pc = "show" /\ out.op = "general" /\ screen = MsgNoGeneral) =>
          C1_Matching(lines, "Información general") = {}
    /\ (pc = "show" /\ out.op = "pasos_programa" /\ screen = MsgNoPasos) =>
          C1_Matching(lines, "Pasos") = {}

-----------------------------------------------------------------------------
(* C5 *)

\* the headings that satisfy the start predicate of the choice
C5_Starts(ls, op) ==
    {i \in HeadingPositions(ls) :
        IF op = "dataset_a" THEN IsDatasetHeading(HeadingAt(ls, i))
        ELSE IsTablaHeading(HeadingAt(ls, i))}

\* C5: when the start heading exists and no heading after it satisfies the end
\* predicate, choice "a" (fail) outputs no range and shows the end-missing
\* message, and choice "b" (to_end) outputs [start, len(lines)), start heading
\* included; when the start heading is missing, both report it and output no range.
C5_EndFallbackPolicies ==
    (pc = "show" /\ out.op \in {"dataset_a", "dataset_b"}) =>
        LET starts == C5_Starts(lines, out.op)
        IN  IF starts = {}
            THEN /\ out.ranges = <<>>
                 /\ screen = IF out.op = "dataset_a" THEN MsgNoDataset ELSE MsgNoTabla
            ELSE C3_EndsAfter(lines, out.op, Min(starts)) = {} =>
                    IF out.op = "dataset_a"
                    THEN out.ranges = <<>> /\ screen = MsgNoTablaAfter
                    ELSE /\ out.ranges = <<<<Min(starts), Len(lines)>>>>
                         /\ screen = JoinStrip(Slice(lines, Min(starts), Len(lines)))

\* choice "b" with the start heading after the first line, text below it and no
\* end heading after it: the range runs to the document end
C5_Witness ==
    /\ pc = "show" /\ out.op = "dataset_b"
    /\ C5_Starts(lines, "dataset_b") # {}
    /\ Min(C5_Starts(lines, "dataset_b")) > 0
    /\ C3_EndsAfter(lines, "dataset_b", Min(C5_Starts(lines, "dataset_b"))) = {}
    /\ out.ranges = <<<<Min(C5_Starts(lines, "dataset_b")), Len(lines)>>>>
    /\ Len(lines) > Min(C5_Starts(lines, "dataset_b")) + 1

-----------------------------------------------------------------------------
(* C6 *)

\* the headings of level 2 or 3 strictly inside (start, end)
C6_Inner(ls, start, end) ==
    {i \in HeadingPositions(ls) : start < i /\ i < end /\ LevelAt(ls, i) \in {2, 3}}

\* C6: in sugerencias_copilot(), for the outer range [start, end) anchored at the
\* "sugerencias copilot" heading, the result has one range per heading of level
\* 2 or 3 strictly inside the outer range (the anchor itself is not counted), in
\* document order, each from its heading to the first later heading of level <=
\* its own, never past end.
C6_PartitionStrictlyInside ==
    (pc = "show" /\ out.op = "sugerencias_copilot" /\ out.target_idx # None) =>
        LET inner == Ascending(C6_Inner(lines, out.outer[1], out.outer[2]))
        IN  inner # <<>> =>
               out.ranges =
                  [k \in 1..Len(inner) |->
                     <<inner[k],
                       Min({Boundary(lines, inner[k], LevelAt(lines, inner[k])), out.outer[2]})>>]

-----------------------------------------------------------------------------
(* C9 *)

\* the level-3 headings whose normalized title contains one of the two terms
C9_Matching(ls) ==
    {i \in HeadingPositions(ls) :
        /\ LevelAt(ls, i) = 3
        /\ \/ Contains(Norm(TitleAt(ls, i)), "pseudocodigo")
           \/ Contains(Norm(TitleAt(ls, i)), "diagrama")}

\* C9: pseudocodigo_diagrama() collects one range per level-3 heading whose
\* diacritic-stripped, lower-cased title contains "pseudocodigo" or "diagrama",
\* and none for any other heading, in document order, each [P, E) with P the
\* heading's line and E the first later heading of level <= 3, else len(lines);
\* with no match the list is empty and a not-found message is shown instead of
\* section text.
C9_AllMatchingSections ==
    (pc = "show" /\ out.op = "pseudocodigo_diagrama") =>
        LET at == Ascending(C9_Matching(lines))
        IN  /\ out.ranges = [k \in 1..Len(at) |-> <<at[k], Boundary(lines, at[k], 3)>>]
            /\ IF at = <<>>
               THEN screen \in {MsgNoPseudo, MsgNoHeadings}
               ELSE screen =
                      JoinBlank([k \in 1..Len(at) |->
                          JoinStrip(Slice(lines, at[k], Boundary(lines, at[k], 3)))], 1)

\* two sections are collected, one from an accented title, while a level-2
\* heading with a matching title is in the document and is not collected
C9_Witness ==
    /\ pc = "show" /\ out.op = "pseudocodigo_diagrama"
    /\ Len(out.ranges) = 2
    /\ \E i \in C9_Matching(lines) : ~Contains(Lower(TitleAt(lines, i)), "pseudocodigo")
                                     /\ Contains(Norm(TitleAt(lines, i)), "pseudocodigo")
    /\ \E i \in HeadingPositions(lines) :
          LevelAt(lines, i) = 2 /\ Contains(Norm(TitleAt(lines, i)), "diagrama")

-----------------------------------------------------------------------------
(* C10 *)

\* C10: a KeyboardInterrupt at any prompt reachable from seleccionar() is
\* handled: control goes back to the menu or seleccionar() returns with salir
\* set; the exception never leaves seleccionar().
C10_AbortNeverLeavesSeleccionar ==
    /\ pc # "raised"
    /\ pc = "returned" => salir

-----------------------------------------------------------------------------
(* C11 *)

\* a step in which a menu module hands a text to show_text
C11_Shows == pc # "show" /\ pc' = "show"

\* what the module behind a query computes from self.lines alone
C11_Answer(op) ==
    CASE op = "general" -> general(lines)
      [] op = "pasos_programa" -> pasos_programa(lines)
      [] op = "dataset_a" -> dataset_a(lines)
      [] op = "dataset_b" -> dataset_b(lines)
      [] op = "pseudocodigo_diagrama" -> pseudocodigo_diagrama(lines)
      [] op = "sugerencias_copilot" -> sugerencias_copilot(lines)

\* C11: the loaded document is immutable for the session: no step of the menu
\* session (options 1-5, dataset choices, invalid inputs, not-found outcomes,
\* interrupts) changes self.lines, and whatever a query shows is what its module
\* computes from self.lines and nothing else, so the same query asked twice in a
\* session shows the same.
C11_LinesNeverChange ==
    [][/\ lines' = lines
       /\ C11_Shows => \E r \in {C11_Answer(out'.op)} :
                           out' = r.out /\ screen' = r.text]_vars

\* a session on a non-empty document in which option 1 missed its section, the
\* loop went on, and option 3 then found a section of blank lines only
C11_Witness ==
    /\ pc = "menu" /\ opcion = 3
    /\ out.op = "pasos_programa" /\ out.sec_lines # <<>>
    /\ screen = MsgNoGeneral
    /\ lines # <<>>

-----------------------------------------------------------------------------
(* C12 *)

\* the headings whose lower-cased title contains "sugerencias copilot"
C12_Anchors(ls) ==
    {i \in HeadingPositions(ls) : Contains(Lower(TitleAt(ls, i)), "sugerencias copilot")}

\* the blocks sugerencias_copilot() shows: the sections it collected, or the
\* whole outer range when it collected none
C12_Blocks == IF out.fallback THEN <<out.outer>> ELSE out.ranges

\* C12: when the outer section resolved by sugerencias_copilot() holds no nested
\* heading of level 2 or 3, the result is exactly one block equal to the whole
\* outer range [start, end), anchor line included; the container is shown as it
\* is, and the case is never reported as a failure or as not found.
C12_WholeBlockFallback ==
    (pc = "show" /\ out.op = "sugerencias_copilot" /\ C12_Anchors(lines) # {}) =>
        LET start == Min(C12_Anchors(lines))
            end   == Boundary(lines, start, LevelAt(lines, start))
        IN  C6_Inner(lines, start, end) = {} =>
               /\ C12_Blocks = <<<<start, end>>>>
               /\ screen = JoinStrip(Slice(lines, start, end))
               /\ screen \notin {MsgNoSugerencias, MsgSugerenciasVacia}

\* the fallback is taken for an anchor whose section holds a deeper heading
\* and stops at a later heading, before the document end
C12_Witness ==
    /\ pc = "show" /\ out.op = "sugerencias_copilot"
    /\ out.fallback
    /\ out.outer[2] < Len(lines)
    /\ \E i \in HeadingPositions(lines) : out.outer[1] < i /\ i < out.outer[2]

-----------------------------------------------------------------------------
(* C13 *)

\* a step that sets salir: option 6 typed at the main prompt, or a
\* KeyboardInterrupt caught by the loop's `except KeyboardInterrupt`
C13_ExitStep ==
    /\ ~salir /\ salir'
    /\ pc' = "returned"
    /\ \/ pc = "menu" /\ opcion' = 6
       \/ pc \in {"menu", "ack_empty", "ack_invalid", "dataset"} /\ opcion' = opcion

\* a step that leaves salir False and keeps the loop going towards the menu:
\* the main prompt leads to an acknowledgement, a shown text, the submenu or the
\* menu itself; an acknowledgement leads to the menu; a shown text leads back to
\* its caller; the submenu leads to a shown text, itself or the menu
C13_LoopStep ==
    /\ ~salir /\ ~salir'
    /\ pc = "idle" => pc' = "menu"
    /\ pc = "menu" =>
          pc' \in {"ack_empty", "ack_invalid", "ack_value_error", "show", "dataset", "menu"}
    /\ pc \in {"ack_empty", "ack_invalid", "ack_value_error"} => pc' = "menu"
    /\ pc = "show" => pc' \in {"menu", "dataset"}
    /\ pc = "dataset" => pc' \in {"show", "dataset", "menu"}
    /\ pc' \notin {"returned", "raised"}

\* C13: in seleccionar() salir goes from False to True only on option 6 or on a
\* KeyboardInterrupt caught at the main loop; every other input leaves salir
\* False and the loop presents the menu again (a resolution miss never ends the
\* session); once salir is True the loop has exited and nothing more is prompted.
C13_SessionEndsOnlyWithSalir ==
    [][/\ C13_ExitStep \/ C13_LoopStep
       /\ salir' => pc' = "returned"]_vars

====
